---- MODULE Spec2Model ----
(***************************************************************************)
(* A model of two teaching scripts of the repository:                      *)
(*   - data_prep (activities/solutions/week_2.py), the pandas pipeline     *)
(*     that cleans the raw paralympics table, joins it with the NPC code   *)
(*     table and writes prepared.csv;                                      *)
(*   - print_data (activities/starter/starter_exceptions.py), the          *)
(*     try/except/else/finally demonstration.                              *)
(* A Python str is a sequence of one-character strings, a DataFrame is a   *)
(* record of its column names, its index labels and its rows, and a cell   *)
(* is a tagged record (missing, str, int, float, date).                    *)
(***************************************************************************)
EXTENDS Integers, Sequences, FiniteSets

VARIABLES
    raw,        \* the DataFrame passed to data_prep
    npc,        \* the rows of npc_codes.csv (Code, Name), as read at line 65
    df,         \* df_prepared, the working table of data_prep
    pc,         \* the statement data_prep is about to execute
    err,        \* the exception data_prep raised ("" while none)
    file,       \* the content of prepared.csv (NoFile while it does not exist)
    run,        \* how many times data_prep has been called on these inputs
    prevOut,    \* the table the previous call returned (NoTable before)
    prevFile,   \* prepared.csv as it was when the current call began
    ppc,        \* the block print_data is about to execute
    path,       \* what file_path.read_text() does in the current print_data call
    printed,    \* the lines print_data has printed, over all calls
    raised,     \* the exception that left the last print_data call ("" if none)
    calls       \* how many print_data calls have begun

vars == <<raw, npc, df, pc, err, file, run, prevOut, prevFile,
          ppc, path, printed, raised, calls>>

prepVars == <<raw, npc, df, pc, err, file, run, prevOut, prevFile>>
printVars == <<ppc, path, printed, raised, calls>>

---------------------------------------------------------------------------
(* Bounds of the model.                                                    *)

\* The largest raw table has MaxRows rows (the smallest has 31, one short of
\* the label 31 that the row pruning names).
MaxRows == 33
\* data_prep is called at most MaxRuns times on the same inputs.
MaxRuns == 2
\* print_data is called at most MaxCalls times.
MaxCalls == 3

---------------------------------------------------------------------------
(* Python str operations.                                                  *)

UpperLetters == <<"A","B","C","D","E","F","G","H","I","J","K","L","M",
                  "N","O","P","Q","R","S","T","U","V","W","X","Y","Z">>
LowerLetters == <<"a","b","c","d","e","f","g","h","i","j","k","l","m",
                  "n","o","p","q","r","s","t","u","v","w","x","y","z">>
DigitChars == <<"0","1","2","3","4","5","6","7","8","9">>

\* A str is the sequence of its characters.  An ASCII character is the string
\* of that character; a character above ASCII is the string "U+" and the
\* hexadecimal digits of its code point (four at least), so that the strs of this module do
\* not depend on the encoding of its file.

\* The characters above ASCII that str.isspace() holds for.
UnicodeSpaces ==
    { "U+0085", "U+00A0", "U+1680", "U+2000", "U+2001", "U+2002",
      "U+2003", "U+2004", "U+2005", "U+2006", "U+2007", "U+2008",
      "U+2009", "U+200A", "U+2028", "U+2029", "U+202F", "U+205F",
      "U+3000" }

\* The characters int() skips around a number: the ASCII whitespace of C
\* (space, tab, line feed, carriage return, form feed, vertical tab 0x0b) and
\* the spaces above ASCII, which int() first turns into spaces.
IntWhitespace == {" ", "\t", "\n", "\r", "\f", ""} \cup UnicodeSpaces

\* The characters str.isspace() holds for, which str.strip() removes: those
\* above and the separators 0x1c, 0x1d, 0x1e and 0x1f, which int() rejects.
Whitespace == IntWhitespace \cup {"", "", "", ""}

\* The decimal digits above ASCII (the characters of category Nd), each row
\* in the order of the values 0 to 9.
UnicodeDigitRows ==
    << <<"U+0660","U+0661","U+0662","U+0663","U+0664","U+0665","U+0666","U+0667","U+0668","U+0669">>,
       <<"U+06F0","U+06F1","U+06F2","U+06F3","U+06F4","U+06F5","U+06F6","U+06F7","U+06F8","U+06F9">>,
       <<"U+07C0","U+07C1","U+07C2","U+07C3","U+07C4","U+07C5","U+07C6","U+07C7","U+07C8","U+07C9">>,
       <<"U+0966","U+0967","U+0968","U+0969","U+096A","U+096B","U+096C","U+096D","U+096E","U+096F">>,
       <<"U+09E6","U+09E7","U+09E8","U+09E9","U+09EA","U+09EB","U+09EC","U+09ED","U+09EE","U+09EF">>,
       <<"U+0A66","U+0A67","U+0A68","U+0A69","U+0A6A","U+0A6B","U+0A6C","U+0A6D","U+0A6E","U+0A6F">>,
       <<"U+0AE6","U+0AE7","U+0AE8","U+0AE9","U+0AEA","U+0AEB","U+0AEC","U+0AED","U+0AEE","U+0AEF">>,
       <<"U+0B66","U+0B67","U+0B68","U+0B69","U+0B6A","U+0B6B","U+0B6C","U+0B6D","U+0B6E","U+0B6F">>,
       <<"U+0BE6","U+0BE7","U+0BE8","U+0BE9","U+0BEA","U+0BEB","U+0BEC","U+0BED","U+0BEE","U+0BEF">>,
       <<"U+0C66","U+0C67","U+0C68","U+0C69","U+0C6A","U+0C6B","U+0C6C","U+0C6D","U+0C6E","U+0C6F">>,
       <<"U+0CE6","U+0CE7","U+0CE8","U+0CE9","U+0CEA","U+0CEB","U+0CEC","U+0CED","U+0CEE","U+0CEF">>,
       <<"U+0D66","U+0D67","U+0D68","U+0D69","U+0D6A","U+0D6B","U+0D6C","U+0D6D","U+0D6E","U+0D6F">>,
       <<"U+0DE6","U+0DE7","U+0DE8","U+0DE9","U+0DEA","U+0DEB","U+0DEC","U+0DED","U+0DEE","U+0DEF">>,
       <<"U+0E50","U+0E51","U+0E52","U+0E53","U+0E54","U+0E55","U+0E56","U+0E57","U+0E58","U+0E59">>,
       <<"U+0ED0","U+0ED1","U+0ED2","U+0ED3","U+0ED4","U+0ED5","U+0ED6","U+0ED7","U+0ED8","U+0ED9">>,
       <<"U+0F20","U+0F21","U+0F22","U+0F23","U+0F24","U+0F25","U+0F26","U+0F27","U+0F28","U+0F29">>,
       <<"U+1040","U+1041","U+1042","U+1043","U+1044","U+1045","U+1046","U+1047","U+1048","U+1049">>,
       <<"U+1090","U+1091","U+1092","U+1093","U+1094","U+1095","U+1096","U+1097","U+1098","U+1099">>,
       <<"U+17E0","U+17E1","U+17E2","U+17E3","U+17E4","U+17E5","U+17E6","U+17E7","U+17E8","U+17E9">>,
       <<"U+1810","U+1811","U+1812","U+1813","U+1814","U+1815","U+1816","U+1817","U+1818","U+1819">>,
       <<"U+1946","U+1947","U+1948","U+1949","U+194A","U+194B","U+194C","U+194D","U+194E","U+194F">>,
       <<"U+19D0","U+19D1","U+19D2","U+19D3","U+19D4","U+19D5","U+19D6","U+19D7","U+19D8","U+19D9">>,
       <<"U+1A80","U+1A81","U+1A82","U+1A83","U+1A84","U+1A85","U+1A86","U+1A87","U+1A88","U+1A89">>,
       <<"U+1A90","U+1A91","U+1A92","U+1A93","U+1A94","U+1A95","U+1A96","U+1A97","U+1A98","U+1A99">>,
       <<"U+1B50","U+1B51","U+1B52","U+1B53","U+1B54","U+1B55","U+1B56","U+1B57","U+1B58","U+1B59">>,
       <<"U+1BB0","U+1BB1","U+1BB2","U+1BB3","U+1BB4","U+1BB5","U+1BB6","U+1BB7","U+1BB8","U+1BB9">>,
       <<"U+1C40","U+1C41","U+1C42","U+1C43","U+1C44","U+1C45","U+1C46","U+1C47","U+1C48","U+1C49">>,
       <<"U+1C50","U+1C51","U+1C52","U+1C53","U+1C54","U+1C55","U+1C56","U+1C57","U+1C58","U+1C59">>,
       <<"U+A620","U+A621","U+A622","U+A623","U+A624","U+A625","U+A626","U+A627","U+A628","U+A629">>,
       <<"U+A8D0","U+A8D1","U+A8D2","U+A8D3","U+A8D4","U+A8D5","U+A8D6","U+A8D7","U+A8D8","U+A8D9">>,
       <<"U+A900","U+A901","U+A902","U+A903","U+A904","U+A905","U+A906","U+A907","U+A908","U+A909">>,
       <<"U+A9D0","U+A9D1","U+A9D2","U+A9D3","U+A9D4","U+A9D5","U+A9D6","U+A9D7","U+A9D8","U+A9D9">>,
       <<"U+A9F0","U+A9F1","U+A9F2","U+A9F3","U+A9F4","U+A9F5","U+A9F6","U+A9F7","U+A9F8","U+A9F9">>,
       <<"U+AA50","U+AA51","U+AA52","U+AA53","U+AA54","U+AA55","U+AA56","U+AA57","U+AA58","U+AA59">>,
       <<"U+ABF0","U+ABF1","U+ABF2","U+ABF3","U+ABF4","U+ABF5","U+ABF6","U+ABF7","U+ABF8","U+ABF9">>,
       <<"U+FF10","U+FF11","U+FF12","U+FF13","U+FF14","U+FF15","U+FF16","U+FF17","U+FF18","U+FF19">>,
       <<"U+104A0","U+104A1","U+104A2","U+104A3","U+104A4","U+104A5","U+104A6","U+104A7","U+104A8","U+104A9">>,
       <<"U+10D30","U+10D31","U+10D32","U+10D33","U+10D34","U+10D35","U+10D36","U+10D37","U+10D38","U+10D39">>,
       <<"U+11066","U+11067","U+11068","U+11069","U+1106A","U+1106B","U+1106C","U+1106D","U+1106E","U+1106F">>,
       <<"U+110F0","U+110F1","U+110F2","U+110F3","U+110F4","U+110F5","U+110F6","U+110F7","U+110F8","U+110F9">>,
       <<"U+11136","U+11137","U+11138","U+11139","U+1113A","U+1113B","U+1113C","U+1113D","U+1113E","U+1113F">>,
       <<"U+111D0","U+111D1","U+111D2","U+111D3","U+111D4","U+111D5","U+111D6","U+111D7","U+111D8","U+111D9">>,
       <<"U+112F0","U+112F1","U+112F2","U+112F3","U+112F4","U+112F5","U+112F6","U+112F7","U+112F8","U+112F9">>,
       <<"U+11450","U+11451","U+11452","U+11453","U+11454","U+11455","U+11456","U+11457","U+11458","U+11459">>,
       <<"U+114D0","U+114D1","U+114D2","U+114D3","U+114D4","U+114D5","U+114D6","U+114D7","U+114D8","U+114D9">>,
       <<"U+11650","U+11651","U+11652","U+11653","U+11654","U+11655","U+11656","U+11657","U+11658","U+11659">>,
       <<"U+116C0","U+116C1","U+116C2","U+116C3","U+116C4","U+116C5","U+116C6","U+116C7","U+116C8","U+116C9">>,
       <<"U+11730","U+11731","U+11732","U+11733","U+11734","U+11735","U+11736","U+11737","U+11738","U+11739">>,
       <<"U+118E0","U+118E1","U+118E2","U+118E3","U+118E4","U+118E5","U+118E6","U+118E7","U+118E8","U+118E9">>,
       <<"U+11950","U+11951","U+11952","U+11953","U+11954","U+11955","U+11956","U+11957","U+11958","U+11959">>,
       <<"U+11C50","U+11C51","U+11C52","U+11C53","U+11C54","U+11C55","U+11C56","U+11C57","U+11C58","U+11C59">>,
       <<"U+11D50","U+11D51","U+11D52","U+11D53","U+11D54","U+11D55","U+11D56","U+11D57","U+11D58","U+11D59">>,
       <<"U+11DA0","U+11DA1","U+11DA2","U+11DA3","U+11DA4","U+11DA5","U+11DA6","U+11DA7","U+11DA8","U+11DA9">>,
       <<"U+16A60","U+16A61","U+16A62","U+16A63","U+16A64","U+16A65","U+16A66","U+16A67","U+16A68","U+16A69">>,
       <<"U+16AC0","U+16AC1","U+16AC2","U+16AC3","U+16AC4","U+16AC5","U+16AC6","U+16AC7","U+16AC8","U+16AC9">>,
       <<"U+16B50","U+16B51","U+16B52","U+16B53","U+16B54","U+16B55","U+16B56","U+16B57","U+16B58","U+16B59">>,
       <<"U+1D7CE","U+1D7CF","U+1D7D0","U+1D7D1","U+1D7D2","U+1D7D3","U+1D7D4","U+1D7D5","U+1D7D6","U+1D7D7">>,
       <<"U+1D7D8","U+1D7D9","U+1D7DA","U+1D7DB","U+1D7DC","U+1D7DD","U+1D7DE","U+1D7DF","U+1D7E0","U+1D7E1">>,
       <<"U+1D7E2","U+1D7E3","U+1D7E4","U+1D7E5","U+1D7E6","U+1D7E7","U+1D7E8","U+1D7E9","U+1D7EA","U+1D7EB">>,
       <<"U+1D7EC","U+1D7ED","U+1D7EE","U+1D7EF","U+1D7F0","U+1D7F1","U+1D7F2","U+1D7F3","U+1D7F4","U+1D7F5">>,
       <<"U+1D7F6","U+1D7F7","U+1D7F8","U+1D7F9","U+1D7FA","U+1D7FB","U+1D7FC","U+1D7FD","U+1D7FE","U+1D7FF">>,
       <<"U+1E140","U+1E141","U+1E142","U+1E143","U+1E144","U+1E145","U+1E146","U+1E147","U+1E148","U+1E149">>,
       <<"U+1E2F0","U+1E2F1","U+1E2F2","U+1E2F3","U+1E2F4","U+1E2F5","U+1E2F6","U+1E2F7","U+1E2F8","U+1E2F9">>,
       <<"U+1E950","U+1E951","U+1E952","U+1E953","U+1E954","U+1E955","U+1E956","U+1E957","U+1E958","U+1E959">>,
       <<"U+1FBF0","U+1FBF1","U+1FBF2","U+1FBF3","U+1FBF4","U+1FBF5","U+1FBF6","U+1FBF7","U+1FBF8","U+1FBF9">> >>

UnicodeDigits ==
    {UnicodeDigitRows[b][i] : b \in 1..Len(UnicodeDigitRows), i \in 1..10}

AsciiDigits == {DigitChars[i] : i \in 1..10}

\* The characters int() and the \d of a regular expression take for decimal
\* digits, and the value of one.
IsDigit(c) == c \in AsciiDigits \/ c \in UnicodeDigits
DigitVal(c) ==
    IF c \in AsciiDigits THEN (CHOOSE i \in 1..10 : DigitChars[i] = c) - 1
    ELSE (CHOOSE i \in 1..10 :
            \E b \in 1..Len(UnicodeDigitRows) : UnicodeDigitRows[b][i] = c) - 1

\* str.lower() on one character.
LowerChar(c) ==
    IF \E i \in 1..26 : UpperLetters[i] = c
    THEN LowerLetters[CHOOSE i \in 1..26 : UpperLetters[i] = c]
    ELSE c

\* str.lower()
StrLower(s) == [i \in 1..Len(s) |-> LowerChar(s[i])]

RECURSIVE LStrip(_)
LStrip(s) ==
    IF s # <<>> /\ Head(s) \in Whitespace THEN LStrip(Tail(s)) ELSE s

RECURSIVE RStrip(_)
RStrip(s) ==
    IF s # <<>> /\ s[Len(s)] \in Whitespace
    THEN RStrip(SubSeq(s, 1, Len(s) - 1))
    ELSE s

\* str.strip()
StrStrip(s) == RStrip(LStrip(s))

\* s without the leading and trailing characters that int() skips.
RECURSIVE IntStrip(_)
IntStrip(s) ==
    IF s # <<>> /\ Head(s) \in IntWhitespace THEN IntStrip(Tail(s))
    ELSE IF s # <<>> /\ s[Len(s)] \in IntWhitespace
         THEN IntStrip(SubSeq(s, 1, Len(s) - 1))
         ELSE s

\* The value of a sequence of decimal digits.
RECURSIVE DigitsVal(_)
DigitsVal(s) ==
    IF s = <<>> THEN 0
    ELSE 10 * DigitsVal(SubSeq(s, 1, Len(s) - 1)) + DigitVal(s[Len(s)])

AllDigits(s) == \A i \in 1..Len(s) : IsDigit(s[i])

\* The decimal digits of a natural number.
RECURSIVE NatToChars(_)
NatToChars(n) ==
    IF n < 10 THEN <<DigitChars[n + 1]>>
    ELSE NatToChars(n \div 10) \o <<DigitChars[(n % 10) + 1]>>

\* str(int)
IntToChars(v) == IF v < 0 THEN <<"-">> \o NatToChars(-v) ELSE NatToChars(v)

\* A digit string that int() accepts: digits, with single underscores allowed
\* between digits.
IsIntBody(s) ==
    /\ s # <<>>
    /\ \A i \in 1..Len(s) : IsDigit(s[i]) \/ s[i] = "_"
    /\ IsDigit(s[1]) /\ IsDigit(s[Len(s)])
    /\ \A i \in 1..(Len(s) - 1) : ~(s[i] = "_" /\ s[i + 1] = "_")

Unsigned(s) == IF s # <<>> /\ Head(s) \in {"+", "-"} THEN Tail(s) ELSE s

\* Whether int(s) succeeds for a str s.
IntParses(s) == IsIntBody(Unsigned(IntStrip(s)))

\* The digits of a str that int() accepts, without the leading zeros.
RECURSIVE DropZeros(_)
DropZeros(d) ==
    IF Len(d) > 1 /\ DigitVal(Head(d)) = 0 THEN DropZeros(Tail(d)) ELSE d

Magnitude(s) == DropZeros(SelectSeq(Unsigned(IntStrip(s)), IsDigit))

\* Whether the number a spells is greater than the number b spells, for
\* digit sequences without leading zeros.
DigitsExceed(a, b) ==
    \/ Len(a) > Len(b)
    \/ /\ Len(a) = Len(b)
       /\ \E i \in 1..Len(a) :
             /\ DigitVal(a[i]) > DigitVal(b[i])
             /\ \A j \in 1..(i - 1) : DigitVal(a[j]) = DigitVal(b[j])

\* 2^63 - 1 and 2^63, the bounds of int64.
Int64MaxDigits == <<"9","2","2","3","3","7","2","0","3","6","8","5","4","7",
                    "7","5","8","0","7">>
Int64MinDigits == <<"9","2","2","3","3","7","2","0","3","6","8","5","4","7",
                    "7","5","8","0","8">>

\* Whether int(s) is outside int64, for a str s that int() accepts: the cast
\* to int64 then raises OverflowError.
OutOfInt64(s) ==
    IF Head(IntStrip(s)) = "-"
    THEN DigitsExceed(Magnitude(s), Int64MinDigits)
    ELSE DigitsExceed(Magnitude(s), Int64MaxDigits)

\* int(s), for a str s that int() accepts.
IntOf(s) ==
    LET t == IntStrip(s)
        body == SelectSeq(Unsigned(t), IsDigit)
    IN IF Head(t) = "-" THEN -DigitsVal(body) ELSE DigitsVal(body)

---------------------------------------------------------------------------
(* Calendar dates, and pandas.to_datetime(..., format='%d/%m/%Y').         *)

IsLeap(y) == (y % 4 = 0 /\ y % 100 # 0) \/ y % 400 = 0

DaysInMonth(y, m) ==
    IF m = 2 THEN (IF IsLeap(y) THEN 29 ELSE 28)
    ELSE IF m \in {4, 6, 9, 11} THEN 30 ELSE 31

RECURSIVE DaysBeforeMonth(_, _)
DaysBeforeMonth(y, m) ==
    IF m = 1 THEN 0 ELSE DaysBeforeMonth(y, m - 1) + DaysInMonth(y, m - 1)

\* The proleptic Gregorian ordinal of a date (date.toordinal()).
Ordinal(y, m, d) ==
    365 * (y - 1) + ((y - 1) \div 4) - ((y - 1) \div 100) + ((y - 1) \div 400)
    + DaysBeforeMonth(y, m) + d

\* The strings array_strptime reads as NaT instead of parsing.
NatStrings == { <<>>, <<"N","a","T">>, <<"n","a","t">>, <<"N","A","T">>,
                <<"n","a","n">>, <<"N","a","N">>, <<"N","A","N">> }

SlashPositions(s) == {i \in 1..Len(s) : s[i] = "/"}

\* The text before the first "/", between the two, and after the second.
DayToken(s) ==
    SubSeq(s, 1, (CHOOSE i \in SlashPositions(s) :
                    \A j \in SlashPositions(s) : i <= j) - 1)
MonthToken(s) ==
    LET a == CHOOSE i \in SlashPositions(s) : \A j \in SlashPositions(s) : i <= j
        b == CHOOSE i \in SlashPositions(s) : \A j \in SlashPositions(s) : i >= j
    IN SubSeq(s, a + 1, b - 1)
YearToken(s) ==
    SubSeq(s, (CHOOSE i \in SlashPositions(s) :
                 \A j \in SlashPositions(s) : i >= j) + 1, Len(s))

\* [1-9]
NonZeroDigit(c) == c \in AsciiDigits /\ c # "0"

\* %d: 3[0-1] | [1-2]\d | 0[1-9] | [1-9] | " "[1-9]
MatchesDay(t) ==
    \/ Len(t) = 1 /\ NonZeroDigit(t[1])
    \/ Len(t) = 2 /\ \/ t[1] = "3" /\ t[2] \in {"0", "1"}
                     \/ t[1] \in {"1", "2"} /\ IsDigit(t[2])
                     \/ t[1] \in {"0", " "} /\ NonZeroDigit(t[2])

\* %m: 1[0-2] | 0[1-9] | [1-9]
MatchesMonth(t) ==
    \/ Len(t) = 1 /\ NonZeroDigit(t[1])
    \/ Len(t) = 2 /\ \/ t[1] = "1" /\ t[2] \in {"0", "1", "2"}
                     \/ t[1] = "0" /\ NonZeroDigit(t[2])

\* %Y: \d\d\d\d
MatchesYear(t) == Len(t) = 4 /\ AllDigits(t)

TokenVal(t) == DigitsVal(SelectSeq(t, IsDigit))

\* Whether midnight of a day is a datetime64[ns] value: Timestamp.min is
\* 1677-09-21 00:12:43.145224193 and Timestamp.max 2262-04-11 23:47:16.854775807,
\* so the days are 1677-09-22 to 2262-04-11.
InTimestampRange(y, m, d) ==
    /\ y >= 1
    /\ Ordinal(y, m, d) >= Ordinal(1677, 9, 22)
    /\ Ordinal(y, m, d) <= Ordinal(2262, 4, 11)

\* Whether to_datetime accepts the str: the whole of it matches %d/%m/%Y, it
\* names a day of the calendar, and that day is a datetime64[ns] value
\* (OutOfBoundsDatetime, a ValueError, otherwise).
DateParses(s) ==
    /\ Cardinality(SlashPositions(s)) = 2
    /\ MatchesDay(DayToken(s))
    /\ MatchesMonth(MonthToken(s))
    /\ MatchesYear(YearToken(s))
    /\ TokenVal(DayToken(s)) <= DaysInMonth(TokenVal(YearToken(s)),
                                            TokenVal(MonthToken(s)))
    /\ InTimestampRange(TokenVal(YearToken(s)), TokenVal(MonthToken(s)),
                        TokenVal(DayToken(s)))

---------------------------------------------------------------------------
(* Cells.                                                                  *)

NA == [k |-> "na"]                       \* NaN, NaT, <NA>
CStr(s) == [k |-> "str", s |-> s]
CInt(v) == [k |-> "int", v |-> v]
CFlt(t) == [k |-> "float", t |-> t]       \* the float t / 10
\* The floats outside int64 tried: 1e<e> and -1e<e> for e from 19 on, and the
\* two infinities.
CBig(neg, e) == [k |-> "bigfloat", neg |-> neg, e |-> e]
CInf(neg) == [k |-> "inf", neg |-> neg]
CDate(y, m, d) == [k |-> "date", y |-> y, m |-> m, d |-> d]

\* The Timestamp a str that matches %d/%m/%Y stands for.
DateOf(s) == CDate(TokenVal(YearToken(s)), TokenVal(MonthToken(s)),
                   TokenVal(DayToken(s)))

Pad(n, s) == IF Len(s) < n THEN [i \in 1..(n - Len(s)) |-> "0"] \o s ELSE s

\* The text to_csv writes for a cell; a missing value is written as the
\* empty field, a float as its sign, its whole part and its tenth.
CellText(c) ==
    CASE c.k = "na" -> <<>>
      [] c.k = "str" -> c.s
      [] c.k = "int" -> IntToChars(c.v)
      [] c.k = "float" ->
            LET a == IF c.t < 0 THEN -c.t ELSE c.t
            IN (IF c.t < 0 THEN <<"-">> ELSE <<>>)
               \o NatToChars(a \div 10) \o <<".">> \o NatToChars(a % 10)
      [] c.k = "bigfloat" ->
            (IF c.neg THEN <<"-">> ELSE <<>>) \o <<"1","e","+">> \o NatToChars(c.e)
      [] c.k = "inf" ->
            (IF c.neg THEN <<"-">> ELSE <<>>) \o <<"i","n","f">>
      [] c.k = "date" -> Pad(4, NatToChars(c.y)) \o <<"-">>
                         \o Pad(2, NatToChars(c.m)) \o <<"-">>
                         \o Pad(2, NatToChars(c.d))

---------------------------------------------------------------------------
(* DataFrames: [columns, index, rows], a row being a function from the     *)
(* column names to cells.                                                  *)

Range(seq) == {seq[i] : i \in 1..Len(seq)}

NoTable == [columns |-> <<>>, index |-> <<>>, rows |-> <<>>]

\* The column of a table, as a sequence of cells.
Column(t, c) == [i \in 1..Len(t.rows) |-> t.rows[i][c]]

\* The table with column c replaced by the cells of values.
SetColumn(t, c, values) ==
    [t EXCEPT !.rows = [i \in 1..Len(t.rows) |->
                          [t.rows[i] EXCEPT ![c] = values[i]]]]

\* DataFrame.drop(columns=cols) raises KeyError for a column the table lacks.
DropColumnsRaises(t, cols) == \E c \in cols : c \notin Range(t.columns)

\* DataFrame.drop(columns=cols)
DropColumns(t, cols) ==
    LET kept == SelectSeq(t.columns, LAMBDA c : c \notin cols)
    IN [t EXCEPT !.columns = kept,
                 !.rows = [i \in 1..Len(t.rows) |->
                             [c \in Range(kept) |-> t.rows[i][c]]]]

\* Mutant: drop(index=labels, errors='ignore') never raises.
DropIndexIgnores(t, labels) == FALSE

\* DataFrame.drop(index=labels) raises KeyError for a label the index lacks.
DropIndexRaises(t, labels) == \E l \in labels : l \notin Range(t.index)

\* Mutant: the rows are dropped by ordinal position, as
\* df.drop(index=df.index[labels]) would.
DropByPosition(t, labels) ==
    LET kept == SelectSeq([i \in 1..Len(t.index) |-> i],
                          LAMBDA i : (i - 1) \notin labels)
    IN [t EXCEPT !.index = [j \in 1..Len(kept) |-> t.index[kept[j]]],
                 !.rows = [j \in 1..Len(kept) |-> t.rows[kept[j]]]]

\* DataFrame.drop(index=labels): the rows whose index label is not in labels,
\* in their order, each keeping its label.
DropIndex(t, labels) ==
    LET kept == SelectSeq([i \in 1..Len(t.index) |-> i],
                          LAMBDA i : t.index[i] \notin labels)
    IN [t EXCEPT !.index = [j \in 1..Len(kept) |-> t.index[kept[j]]],
                 !.rows = [j \in 1..Len(kept) |-> t.rows[kept[j]]]]

\* DataFrame.insert(loc, name, values) with loc the place after column c.
InsertAfter(t, c, name, values) ==
    LET at == CHOOSE i \in 1..Len(t.columns) : t.columns[i] = c
        cols == SubSeq(t.columns, 1, at) \o <<name>>
                \o SubSeq(t.columns, at + 1, Len(t.columns))
    IN [t EXCEPT !.columns = cols,
                 !.rows = [i \in 1..Len(t.rows) |->
                             [x \in Range(cols) |->
                                IF x = name THEN values[i] ELSE t.rows[i][x]]]]

---------------------------------------------------------------------------
(* The statements of data_prep.                                            *)

DroppedColumns == {"URL", "disabilities_included", "highlights"}
DroppedLabels == {0, 17, 31}
columns_to_change ==
    <<"countries", "events", "participants_m", "participants_f", "participants">>
object == <<"type", "country", "host">>

Summer == <<"S","u","m","m","e","r">>

\* The kinds of the values of a column that are not missing.
NumberKinds == {"int", "float", "bigfloat", "inf"}
KindsOf(cells) == {cells[i].k : i \in 1..Len(cells)} \ {"na"}

\* Whether a column of the table data_prep is given is an object column: it
\* holds a str, or dates next to numbers (pandas builds an int64 or float64
\* column from numbers and missing values alone, and a datetime64[ns] column
\* from dates and missing values alone).  Dropping rows does not change the
\* dtype of a column.
IsObjectColumn(cells) ==
    LET kinds == KindsOf(cells)
    IN "str" \in kinds \/ ("date" \in kinds /\ kinds \cap NumberKinds # {})

\* Lines 51-52: the .str accessor raises AttributeError on a column that is
\* not an object column (given: the column of the table data_prep was given)
\* and on an object column whose values (cells: after the row pruning) are
\* numbers alone or dates alone; it takes strs, strs next to other values,
\* dates next to numbers, and a column of missing values.
StrAccessorRaises(given, cells) ==
    LET kinds == KindsOf(cells)
    IN \/ ~IsObjectColumn(given)
       \/ /\ kinds # {}
          /\ kinds \subseteq NumberKinds \/ kinds = {"date"}

LowerAll(c) == IF c.k = "str" THEN CStr(StrLower(c.s)) ELSE c

\* Lines 50-51: the cells equal to 'Summer' are replaced by their lower case.
LowerSummer(c) == IF c = CStr(Summer) THEN CStr(StrLower(c.s)) ELSE c

\* Line 52: Series.str.strip() strips a str; a missing value stays missing and
\* a value that is no str becomes missing.
StripCell(c) == IF c.k = "str" THEN CStr(StrStrip(c.s)) ELSE NA

\* Mutant: the column is stripped before 'Summer' is looked for.
StripThenLower(c) == LowerSummer(StripCell(c))

\* Lines 50-52 on one cell of the type column.
NormaliseType(c) == StripCell(LowerSummer(c))

\* Series.astype('Int64') raises (ValueError, OverflowError or TypeError) for a
\* str that int() rejects, for a str that spells an integer outside int64, for
\* a float with a fraction or outside int64, and for a column that mixes str
\* with numbers (the cast of the numbers is then not equivalent to the
\* values).
Int64Raises(cells) ==
    LET kinds == {cells[i].k : i \in 1..Len(cells)} \ {"na"}
    IN \/ "date" \in kinds
       \/ "str" \in kinds /\ kinds # {"str"}
       \/ \E i \in 1..Len(cells) :
             \/ cells[i].k = "str" /\ ~IntParses(cells[i].s)
             \/ cells[i].k = "str" /\ IntParses(cells[i].s)
                                   /\ OutOfInt64(cells[i].s)
             \/ cells[i].k = "float" /\ cells[i].t % 10 # 0
             \/ cells[i].k \in {"bigfloat", "inf"}

\* Series.astype('Int64') on one cell of a column it accepts.
Int64Cell(c) ==
    CASE c.k = "str" -> CInt(IntOf(c.s))
      [] c.k = "float" -> CInt(c.t \div 10)
      [] OTHER -> c

\* pd.to_datetime(series, format='%d/%m/%Y') raises ValueError for a number
\* and for a str that is neither a NaT string nor a date it accepts in that
\* format; a missing value and a value that is a date already raise nothing.
ToDatetimeRaises(cells) ==
    \E i \in 1..Len(cells) :
        \/ cells[i].k \in {"int", "float", "bigfloat", "inf"}
        \/ cells[i].k = "str" /\ cells[i].s \notin NatStrings
                              /\ ~DateParses(cells[i].s)

\* pd.to_datetime on one cell of a column it accepts: a date is kept, a str
\* is parsed, a NaT string and a missing value are NaT.
ToDatetimeCell(c) ==
    IF c.k = "date" THEN c
    ELSE IF c.k = "str" /\ c.s \notin NatStrings THEN DateOf(c.s)
    ELSE NA

\* The time of day str(Timestamp) ends with.
Midnight == <<" ","0","0",":","0","0",":","0","0">>

\* Series.astype('string') on one cell: a str and a missing value are kept, a
\* number becomes its text; a date becomes str(Timestamp) in an object column
\* and the date alone in a datetime64[ns] column.
StringCell(c, isObject) ==
    IF c.k \in {"na", "str"} THEN c
    ELSE IF c.k = "date" /\ isObject THEN CStr(CellText(c) \o Midnight)
    ELSE CStr(CellText(c))

\* Mutant: the absolute value of the difference.
DurationAbs(s, e) ==
    IF s.k = "date" /\ e.k = "date"
    THEN LET v == Ordinal(e.y, e.m, e.d) - Ordinal(s.y, s.m, s.d)
         IN CInt(IF v < 0 THEN -v ELSE v)
    ELSE NA

\* The whole days of the largest timedelta64[ns], 2^63 - 1 nanoseconds.
MaxTimedeltaDays == 106751

\* Line 61: end - start raises OverflowError when, in some row, the two dates
\* are further apart than a timedelta64[ns] holds.
DurationRaises(starts, ends) ==
    \E i \in 1..Len(starts) :
        /\ starts[i].k = "date" /\ ends[i].k = "date"
        /\ LET v == Ordinal(ends[i].y, ends[i].m, ends[i].d)
                    - Ordinal(starts[i].y, starts[i].m, starts[i].d)
           IN v > MaxTimedeltaDays \/ -v > MaxTimedeltaDays

\* Line 61: (end - start).dt.days.astype('Int64') on one row.
DurationCell(s, e) ==
    IF s.k = "date" /\ e.k = "date"
    THEN CInt(Ordinal(e.y, e.m, e.d) - Ordinal(s.y, s.m, s.d))
    ELSE NA

UK == <<"U","K">>
USA == <<"U","S","A">>
Korea == <<"K","o","r","e","a">>
Russia == <<"R","u","s","s","i","a">>
China == <<"C","h","i","n","a">>
GreatBritain == <<"G","r","e","a","t"," ","B","r","i","t","a","i","n">>
UnitedStates == <<"U","n","i","t","e","d"," ","S","t","a","t","e","s"," ",
                  "o","f"," ","A","m","e","r","i","c","a">>
RepublicOfKorea == <<"R","e","p","u","b","l","i","c"," ","o","f"," ",
                     "K","o","r","e","a">>
RussianFederation == <<"R","u","s","s","i","a","n"," ","F","e","d","e","r",
                       "a","t","i","o","n">>
PeoplesRepublicOfChina == <<"P","e","o","p","l","e","'","s"," ","R","e","p",
                            "u","b","l","i","c"," ","o","f"," ","C","h","i",
                            "n","a">>

\* Lines 66-72.
replacement_names ==
    << <<UK, GreatBritain>>, <<USA, UnitedStates>>, <<Korea, RepublicOfKorea>>,
       <<Russia, RussianFederation>>, <<China, PeoplesRepublicOfChina>> >>

\* Mutant: the keys are matched without regard to case.
ReplaceIgnoringCase(c) ==
    IF c.k = "str" /\ \E i \in 1..Len(replacement_names) :
                          StrLower(replacement_names[i][1]) = StrLower(c.s)
    THEN CStr(replacement_names[CHOOSE i \in 1..Len(replacement_names) :
                  StrLower(replacement_names[i][1]) = StrLower(c.s)][2])
    ELSE c

\* Line 73: Series.replace(replacement_names) on one cell: a value equal to a
\* key becomes that key's value, any other value is kept.
ReplaceCell(c) ==
    IF c.k = "str" /\ \E i \in 1..Len(replacement_names) :
                          replacement_names[i][1] = c.s
    THEN CStr(replacement_names[CHOOSE i \in 1..Len(replacement_names) :
                                  replacement_names[i][1] = c.s][2])
    ELSE c

\* The rows of the reference table a left row joins with: those whose Name
\* equals its country; merge takes a missing country and a missing Name for
\* equal keys.
MatchesOf(r, ref) == SelectSeq(ref, LAMBDA e : e.Name = r["country"])

\* A left row with the Code and Name of a reference row.
Joined(r, code, name) ==
    [c \in DOMAIN r \cup {"Code", "Name"} |->
        IF c = "Code" THEN code ELSE IF c = "Name" THEN name ELSE r[c]]

\* The rows of the left join for one left row: one per match in the order of
\* the reference table, or one with a missing Code and Name when none matches.
JoinRow(r, ref) ==
    LET m == MatchesOf(r, ref)
    IN IF m = <<>> THEN << Joined(r, NA, NA) >>
       ELSE [i \in 1..Len(m) |-> Joined(r, m[i].Code, m[i].Name)]

RECURSIVE JoinRows(_, _)
JoinRows(rows, ref) ==
    IF rows = <<>> THEN <<>>
    ELSE JoinRow(Head(rows), ref) \o JoinRows(Tail(rows), ref)

\* Mutant: how='inner', which drops the rows without a match.
MergeInner(t, ref) ==
    LET unmatched(r) == MatchesOf(r, ref) # <<>>
        rows == JoinRows(SelectSeq(t.rows, unmatched), ref)
    IN [columns |-> t.columns \o <<"Code", "Name">>,
        index |-> [i \in 1..Len(rows) |-> i - 1],
        rows |-> rows]

\* Line 74: DataFrame.merge(npc_df, how='left', left_on='country',
\* right_on='Name'). The result has a fresh index 0, 1, ...
MergeLeft(t, ref) ==
    LET rows == JoinRows(t.rows, ref)
    IN [columns |-> t.columns \o <<"Code", "Name">>,
        index |-> [i \in 1..Len(rows) |-> i - 1],
        rows |-> rows]

\* Line 77: DataFrame.to_csv(out_file, index=False): the header and, for each
\* row, the text of its cells in column order.
ToCsv(t) ==
    [exists |-> TRUE,
     header |-> t.columns,
     lines |-> [i \in 1..Len(t.rows) |->
                  [j \in 1..Len(t.columns) |-> CellText(t.rows[i][t.columns[j]])]]]

NoFile == [exists |-> FALSE, header |-> <<>>, lines |-> <<>>]

---------------------------------------------------------------------------
(* The inputs: the raw tables data_prep(df) is given (line 46), among them  *)
(* those pd.read_csv returns at line 85, and the reference tables it reads. *)
(* Every raw table has distinct index labels and distinct values           *)
(* in its sports column, which data_prep never touches and which therefore *)
(* identifies the raw row an output row comes from.                        *)

RawColumns ==
    <<"type", "country", "host", "start", "end", "disabilities_included",
      "countries", "events", "sports", "participants_m", "participants_f",
      "participants", "highlights", "URL">>

\* 'DD/MM/YYYY'
DateChars(d, m, y) ==
    Pad(2, NatToChars(d)) \o <<"/">> \o Pad(2, NatToChars(m)) \o <<"/">>
    \o Pad(4, NatToChars(y))

TypeCycle ==
    << CStr(Summer), CStr(<<"w","i","n","t","e","r"," ">>),
       CStr(<<" ","S","u","m","m","e","r">>), CStr(<<"s","u","m","m","e","r">>),
       CStr(<<"\t","W","i","n","t","e","r","\n">>), NA,
       CStr(<<"S","U","M","M","E","R">>),
       CStr(<<"","W","i","n","t","e","r","U+00A0">>),
       CStr(<<"","s","u","m","m","e","r","U+0085","">>), CInt(5) >>

CountryCycle ==
    << CStr(UK), CStr(USA), CStr(Korea), CStr(Russia), CStr(China),
       CStr(<<"I","t","a","l","y">>), CStr(<<"u","k">>), CStr(GreatBritain),
       NA, CStr(<<"U","K"," ">>), CStr(<<"R","u","s","s","i","a","n">>) >>

\* A number as the cell of a numeric column (text: the column was read as str).
Num(v, text) == IF text THEN CStr(IntToChars(v)) ELSE CInt(v)

\* The i-th row of a raw table.
FillerRow(i, text) ==
    [c \in Range(RawColumns) |->
        CASE c = "type" -> TypeCycle[(i % Len(TypeCycle)) + 1]
          [] c = "country" -> CountryCycle[(i % Len(CountryCycle)) + 1]
          [] c = "host" -> IF i % 10 = 4 THEN CDate(2008, 7, 1)
                           ELSE CStr(<<"R","o","m","e">>)
          [] c = "start" ->
                CStr(DateChars(1 + (i % 20), 1 + (i % 12), 1960 + 4 * (i % 16)))
          [] c = "end" ->
                CStr(DateChars(10 + (i % 20), 1 + (i % 12), 1960 + 4 * (i % 16)))
          [] c = "countries" -> Num(20 + i, text)
          [] c = "events" -> Num(50 + 3 * i, text)
          [] c = "sports" -> CInt(i)
          [] c = "participants_m" -> Num(100 + i, text)
          [] c = "participants_f" -> Num(40 + i, text)
          [] c = "participants" -> Num(140 + 2 * i, text)
          [] OTHER -> CStr(<<"x">>)]

\* The cells tried in participants_m of the probe row: numbers and missing
\* values in a numeric column, strs and missing values in a str column.
NumericProbes ==
    {CInt(100), NA, CFlt(1000), CFlt(1005), CBig(FALSE, 19), CInf(TRUE)}
TextProbes ==
    { CStr(<<"1","0","0">>), CStr(<<"a","b","c">>), CStr(<<" ","-","7","\n">>),
      CStr(<<"3",".","5">>), NA, CStr(<<"","7","U+00A0">>),
      CStr(<<"","7">>), CStr(Int64MinDigits),
      CStr(<<"+","0","U+0663","_","1">>) }

\* The (start, end) pairs tried in the probe row.
DateProbes ==
    { << CStr(DateChars(1, 7, 2008)), CStr(DateChars(15, 7, 2008)) >>,
      << CStr(DateChars(15, 7, 2008)), CStr(DateChars(1, 7, 2008)) >>,
      << NA, CStr(DateChars(15, 7, 2008)) >>,
      << CStr(<<"2","0","0","8","-","0","7","-","0","1">>),
         CStr(DateChars(15, 7, 2008)) >>,
      << CStr(<<"2","8","/","2","/","2","0","0","8">>),
         CStr(DateChars(1, 3, 2008)) >>,
      << CStr(DateChars(1, 7, 2008)), CStr(DateChars(31, 9, 2008)) >>,
      << CStr(DateChars(1, 1, 1500)), CStr(DateChars(15, 7, 2008)) >>,
      << CDate(2008, 7, 1), CStr(DateChars(15, 7, 2008)) >>,
      << CStr(DateChars(1, 1, 1700)), CStr(DateChars(1, 1, 2200)) >> }

\* The places (1-based) tried for the probe row; under the default index the
\* second one carries the label 17.
ProbePlaces == {2, 18}

\* The probe row: type 'Summer ', country 'Russia', the float -1.5 as host,
\* and the cells tried.
ProbeRow(i, text, cell, dates) ==
    [FillerRow(i, text) EXCEPT
        !["type"] = CStr(Summer \o <<" ">>),
        !["country"] = CStr(Russia),
        !["host"] = CFlt(-15),
        !["participants_m"] = cell,
        !["start"] = dates[1],
        !["end"] = dates[2]]

IndexKinds == {"range", "shifted", "reversed", "swapped"}

\* The index labels of a table of n rows: the default RangeIndex that
\* read_csv gives, the labels 1..n, n-1 down to 0 (the table sorted in
\* reverse), or the default labels with 1 and 2 exchanged.
IndexOf(kind, n) ==
    [i \in 1..n |-> CASE kind = "range" -> i - 1
                      [] kind = "shifted" -> i
                      [] kind = "reversed" -> n - i
                      [] kind = "swapped" ->
                            IF i = 2 THEN 2 ELSE IF i = 3 THEN 1 ELSE i - 1]

RawTable(n, kind, place, text, cell, dates) ==
    [columns |-> RawColumns,
     index |-> IndexOf(kind, n),
     rows |-> [i \in 1..n |-> IF i = place THEN ProbeRow(i, text, cell, dates)
                                           ELSE FillerRow(i, text)]]

Ref(code, name) == [Code |-> CStr(code), Name |-> CStr(name)]

\* The reference tables tried: one with each Name once, one where the Name
\* 'Russian Federation' occurs twice, one that knows the raw names only and
\* has a row without a Name.
RefTables ==
    { << Ref(<<"G","B","R">>, GreatBritain), Ref(<<"R","U","S">>, RussianFederation),
         Ref(<<"U","S","A">>, UnitedStates), Ref(<<"I","T","A">>, <<"I","t","a","l","y">>) >>,
      << Ref(<<"G","B","R">>, GreatBritain), Ref(<<"R","U","S">>, RussianFederation),
         Ref(<<"I","T","A">>, <<"I","t","a","l","y">>),
         Ref(<<"R","U","2">>, RussianFederation) >>,
      << Ref(<<"X","U","K">>, UK), Ref(<<"X","R","U">>, Russia),
         Ref(<<"C","H","N">>, PeoplesRepublicOfChina),
         [Code |-> CStr(<<"Z","Z","Z">>), Name |-> NA] >> }

\* A prepared.csv left by something else.
StaleFile == [exists |-> TRUE, header |-> <<"old">>, lines |-> << <<<<"1">>>> >>]

\* The smallest table that has the label 31 under the default index.
EnoughRows == 32

ScenarioDates == << CStr(DateChars(1, 7, 2008)), CStr(DateChars(15, 7, 2008)) >>

\* The probes tried together: each participants_m cell with the dates of the
\* scenario, and each pair of dates with the number 100.
Probes(text) ==
    { << cell, ScenarioDates >> :
        cell \in (IF text THEN TextProbes ELSE NumericProbes) }
    \cup { << Num(100, text), dates >> : dates \in DateProbes }

\* The raw tables tried: tables on which the row pruning finds its labels,
\* with every probe; tables on which it does not (one row short, or labelled
\* from 1), tables that lack a column data_prep drops, and tables whose type
\* column holds the number 5 in every row, or in every row but the first.
RawTables ==
    UNION { { RawTable(n, kind, place, text, p[1], p[2]) : p \in Probes(text) } :
            n \in EnoughRows..MaxRows, kind \in {"range", "reversed"},
            place \in ProbePlaces, text \in BOOLEAN }
    \cup
    { RawTable(n, kind, 2, text, Num(100, text), ScenarioDates) :
        n \in {EnoughRows - 1}, kind \in IndexKinds, text \in BOOLEAN }
    \cup
    { RawTable(n, kind, 2, text, Num(100, text), ScenarioDates) :
        n \in EnoughRows..MaxRows, kind \in {"shifted", "swapped"},
        text \in BOOLEAN }
    \cup
    { DropColumns(RawTable(n, "range", 2, FALSE, NA, ScenarioDates), {c}) :
        n \in EnoughRows..MaxRows, c \in {"URL", "highlights"} }
    \cup
    { LET t == RawTable(n, "range", 2, FALSE, NA, ScenarioDates)
      IN SetColumn(t, "type",
            [i \in 1..n |-> IF i = 1 THEN first ELSE CInt(5)]) :
        n \in EnoughRows..MaxRows, first \in {CInt(5), CStr(Summer)} }

---------------------------------------------------------------------------
(* data_prep, statement by statement.                                      *)

InitPrep ==
    /\ raw \in RawTables
    /\ npc \in RefTables
    /\ df = NoTable
    /\ pc = "drop_columns"
    /\ err = ""
    /\ file \in {NoFile, StaleFile}
    /\ prevFile = file
    /\ prevOut = NoTable
    /\ run = 1

\* The exceptions of data_prep, named by the statement that raises them.
KeyErrorColumns == "KeyError: columns not found in axis"
KeyErrorIndex == "KeyError: labels not found in axis"
Int64Error == "ValueError, OverflowError or TypeError: cannot convert to Int64"
DatetimeError == "ValueError: time data does not match format"
StrAccessorError == "AttributeError: Can only use .str accessor with string values"
DurationError == "OverflowError: Overflow in int64 addition"

Raise(e) ==
    /\ pc' = "failed"
    /\ err' = e
    /\ UNCHANGED <<raw, npc, df, file, run, prevOut, prevFile>>

Goto(next, t) ==
    /\ pc' = next
    /\ df' = t
    /\ UNCHANGED <<raw, npc, err, file, run, prevOut, prevFile>>

\* Line 47.
DropCols ==
    /\ pc = "drop_columns"
    /\ IF DropColumnsRaises(raw, DroppedColumns)
       THEN Raise(KeyErrorColumns)
       ELSE Goto("drop_rows", DropColumns(raw, DroppedColumns))
    /\ UNCHANGED printVars

\* Line 49.
DropRows ==
    /\ pc = "drop_rows"
    /\ IF DropIndexRaises(df, DroppedLabels)
       THEN Raise(KeyErrorIndex)
       ELSE Goto("normalise", DropIndex(df, DroppedLabels))
    /\ UNCHANGED printVars

\* Lines 50-52.
Normalise ==
    /\ pc = "normalise"
    /\ IF StrAccessorRaises(Column(raw, "type"), Column(df, "type"))
       THEN Raise(StrAccessorError)
       ELSE Goto("to_int", SetColumn(df, "type",
                [i \in 1..Len(df.rows) |-> NormaliseType(df.rows[i]["type"])]))
    /\ UNCHANGED printVars

\* df[columns_to_change].astype('Int64'), on columns it accepts.
AsInt64(t) ==
    [t EXCEPT !.rows = [i \in 1..Len(t.rows) |->
        [c \in DOMAIN t.rows[i] |->
            IF c \in Range(columns_to_change) THEN Int64Cell(t.rows[i][c])
            ELSE t.rows[i][c]]]]

\* start and end parsed by pd.to_datetime, on columns it accepts.
AsDatetime(t) ==
    [t EXCEPT !.rows = [i \in 1..Len(t.rows) |->
        [c \in DOMAIN t.rows[i] |->
            IF c \in {"start", "end"} THEN ToDatetimeCell(t.rows[i][c])
            ELSE t.rows[i][c]]]]

\* df[object].astype('string')
AsStringDtype(t, given) ==
    LET isObject == [c \in Range(object) |-> IsObjectColumn(Column(given, c))]
    IN [t EXCEPT !.rows = [i \in 1..Len(t.rows) |->
          [c \in DOMAIN t.rows[i] |->
              IF c \in Range(object) THEN StringCell(t.rows[i][c], isObject[c])
              ELSE t.rows[i][c]]]]

\* df['country'].replace(replacement_names)
ReplaceCountry(t) ==
    [t EXCEPT !.rows = [i \in 1..Len(t.rows) |->
        [t.rows[i] EXCEPT !["country"] = ReplaceCell(t.rows[i]["country"])]]]

\* Lines 54-55.
ToInt64 ==
    /\ pc = "to_int"
    /\ IF \E j \in 1..Len(columns_to_change) :
             Int64Raises(Column(df, columns_to_change[j]))
       THEN Raise(Int64Error)
       ELSE Goto("to_datetime", AsInt64(df))
    /\ UNCHANGED printVars

\* Lines 56-57.
ToDatetime ==
    /\ pc = "to_datetime"
    /\ IF ToDatetimeRaises(Column(df, "start")) \/ ToDatetimeRaises(Column(df, "end"))
       THEN Raise(DatetimeError)
       ELSE Goto("to_string", AsDatetime(df))
    /\ UNCHANGED printVars

\* Lines 58-59.
AsString ==
    /\ pc = "to_string"
    /\ Goto("duration", AsStringDtype(df, raw))
    /\ UNCHANGED printVars

\* Lines 61-62.
Duration ==
    /\ pc = "duration"
    /\ IF DurationRaises(Column(df, "start"), Column(df, "end"))
       THEN Raise(DurationError)
       ELSE Goto("resolve", InsertAfter(df, "end", "duration",
                [i \in 1..Len(df.rows) |->
                    DurationCell(df.rows[i]["start"], df.rows[i]["end"])]))
    /\ UNCHANGED printVars

\* Lines 64-75: the names are replaced, the table is left-joined with the
\* reference table and the Name column is dropped.
Resolve ==
    /\ pc = "resolve"
    /\ Goto("write", DropColumns(
                MergeLeft(ReplaceCountry(df), npc),
                {"Name"}))
    /\ UNCHANGED printVars

\* What prepared.csv holds after to_csv(out_file, index=False) when it held
\* old before: the file is opened for writing, which truncates it.
Written(old, t) == ToCsv(t)

\* Lines 76-78.
Write ==
    /\ pc = "write"
    /\ file' = Written(file, df)
    /\ pc' = "done"
    /\ UNCHANGED <<raw, npc, df, err, run, prevOut, prevFile>>
    /\ UNCHANGED printVars

\* data_prep is called again on the same raw table and reference table.
Rerun ==
    /\ pc = "done"
    /\ run < MaxRuns
    /\ run' = run + 1
    /\ prevOut' = df
    /\ prevFile' = file
    /\ df' = NoTable
    /\ pc' = "drop_columns"
    /\ UNCHANGED <<raw, npc, err, file>>
    /\ UNCHANGED printVars

InitPrintIdle ==
    /\ ppc = "idle"
    /\ path = "none"
    /\ printed = <<>>
    /\ raised = ""
    /\ calls = 0

Init == InitPrep /\ InitPrintIdle

Next ==
    \/ DropCols
    \/ DropRows
    \/ Normalise
    \/ ToInt64
    \/ ToDatetime
    \/ AsString
    \/ Duration
    \/ Resolve
    \/ Write
    \/ Rerun

Spec == Init /\ [][Next]_vars

---------------------------------------------------------------------------
(* print_data (starter_exceptions.py, lines 9-34), block by block.         *)

\* What file_path.read_text() does: it returns the text of the file, or it
\* raises.
Contents == {"a,b", ""}
ReadErrors ==
    {"FileNotFoundError", "PermissionError", "IsADirectoryError",
     "UnicodeDecodeError"}

SorryLine(e) == "Sorry, could not find that file. Error " \o e
FinishedLine == "Finished attempting to read the file."

\* The exception classes the except clause of line 29 catches.
Caught == {"FileNotFoundError"}

InitPrint ==
    /\ raw = NoTable
    /\ npc = <<>>
    /\ df = NoTable
    /\ pc = "not_called"
    /\ err = ""
    /\ file = NoFile
    /\ prevFile = NoFile
    /\ prevOut = NoTable
    /\ run = 0
    /\ InitPrintIdle

\* print_data(file_path) is called (lines 188-189).
Call ==
    /\ ppc = "idle"
    /\ calls < MaxCalls
    /\ calls' = calls + 1
    /\ path' \in Contents \cup ReadErrors
    /\ raised' = ""
    /\ ppc' = "try"
    /\ UNCHANGED printed
    /\ UNCHANGED prepVars

\* Lines 27-28: the try block; an exception goes to the clause that catches
\* it, or to the finally block alone.
Try ==
    /\ ppc = "try"
    /\ ppc' = IF path \in Contents THEN "else"
              ELSE IF path \in Caught THEN "except"
              ELSE "finally"
    /\ UNCHANGED <<path, printed, raised, calls>>
    /\ UNCHANGED prepVars

\* Lines 29-30.
Except ==
    /\ ppc = "except"
    /\ printed' = Append(printed, SorryLine(path))
    /\ ppc' = "finally"
    /\ UNCHANGED <<path, raised, calls>>
    /\ UNCHANGED prepVars

\* Lines 31-32.
Else ==
    /\ ppc = "else"
    /\ printed' = Append(printed, path)
    /\ ppc' = "finally"
    /\ UNCHANGED <<path, raised, calls>>
    /\ UNCHANGED prepVars

\* Lines 33-34: the finally block prints, and then an exception that no
\* clause caught leaves print_data; the script, which catches nothing, ends.
Finally ==
    /\ ppc = "finally"
    /\ printed' = Append(printed, FinishedLine)
    /\ IF path \in ReadErrors \ Caught
       THEN raised' = path /\ ppc' = "ended"
       ELSE raised' = "" /\ ppc' = "idle"
    /\ UNCHANGED <<path, calls>>
    /\ UNCHANGED prepVars

NextPrint ==
    \/ Call
    \/ Try
    \/ Except
    \/ Else
    \/ Finally

SpecPrint == InitPrint /\ [][NextPrint]_vars

---------------------------------------------------------------------------
(* The claims.                                                             *)

Finished == pc \in {"done", "failed"}
PastPruning ==
    pc \in {"normalise", "to_int", "to_datetime", "to_string", "duration",
            "resolve", "write", "done"}

\* The places (1-based) of the raw rows whose label the row pruning spares,
\* as a set and in their order.
RetainedPlaces == {i \in 1..Len(raw.rows) : raw.index[i] \notin DroppedLabels}
RetainedSeq ==
    SelectSeq([i \in 1..Len(raw.rows) |-> i],
              LAMBDA i : raw.index[i] \notin DroppedLabels)

\* The sports value identifies a raw row (see the inputs).
KeyOf(r) == r["sports"].v
RetainedKeys == {KeyOf(raw.rows[i]) : i \in RetainedPlaces}
OutKeys == {KeyOf(df.rows[j]) : j \in 1..Len(df.rows)}

\* The raw row an output row comes from.
RawOf(o) == raw.rows[CHOOSE i \in 1..Len(raw.rows) : KeyOf(raw.rows[i]) = KeyOf(o)]

DefaultIndex == raw.index = [i \in 1..Len(raw.rows) |-> i - 1]

RefNamesDistinct ==
    \A a, b \in 1..Len(npc) : npc[a].Name = npc[b].Name => a = b

\* C1 as stated: whenever data_prep returns for a raw table of at least 32
\* rows, the returned table has exactly three rows fewer than the raw table,
\* whatever the reference table.
C1_ExactlyThreeFewer ==
    (pc = "done" /\ Len(raw.rows) >= EnoughRows)
        => Len(df.rows) = Len(raw.rows) - 3

\* C1 amended: the row pruning removes exactly three rows and the left join
\* keeps every remaining row, so the returned table never has fewer than
\* (input rows - 3) rows and every spared raw row appears in it; it has
\* exactly (input rows - 3) rows when no Name occurs twice in the reference
\* table (a Name that occurs k times yields k rows for each matching row).
C1_RowCount ==
    /\ (PastPruning /\ pc \notin {"write", "done"})
            => Len(df.rows) = Len(raw.rows) - 3
    /\ pc \in {"write", "done"} =>
        /\ Len(df.rows) >= Len(raw.rows) - 3
        /\ RefNamesDistinct => Len(df.rows) = Len(raw.rows) - 3
        /\ OutKeys = RetainedKeys

\* C1's case: a call returned with a reference table of distinct Names that
\* leaves some country unmatched, three rows short of the raw table.
C1_Witness ==
    /\ pc = "done"
    /\ RefNamesDistinct
    /\ Len(raw.rows) >= EnoughRows
    /\ Len(df.rows) = Len(raw.rows) - 3
    /\ \E j \in 1..Len(df.rows) : df.rows[j]["Code"] = NA
    /\ \E j \in 1..Len(df.rows) : df.rows[j]["Code"] # NA

\* C4: a call that fails writes nothing: prepared.csv is as it was when the
\* call began, and it differs from that only once the call is done (the
\* write is the last statement).  A raw table with the default index and
\* fewer than 32 rows fails with the KeyError of the row pruning, after the
\* column pruning and before any other statement.
C4_NoPartialOutput ==
    /\ pc = "failed" => file = prevFile
    /\ file # prevFile => pc = "done"
    /\ (DefaultIndex /\ Len(raw.rows) < EnoughRows
        /\ ~DropColumnsRaises(raw, DroppedColumns)
        /\ pc \notin {"drop_columns", "drop_rows"})
            => /\ pc = "failed"
               /\ err = KeyErrorIndex
               /\ Len(df.rows) = Len(raw.rows)

\* C4's case: a table of 31 rows made the row pruning fail while a
\* prepared.csv existed, which is untouched.
C4_Witness ==
    /\ pc = "failed"
C10_Witness ==
    /\ pc = "normalise"
    /\ ~DefaultIndex
    /\ KeyOf(raw.rows[1]) \in OutKeys
    /\ KeyOf(raw.rows[Len(raw.rows)]) \notin OutKeys

\* A str that is no number: it holds a character that is neither a digit, a
\* sign, an underscore nor a character int() skips.
NonNumeric(c) ==
    /\ c.k = "str"
    /\ \E i \in 1..Len(c.s) :
          ~IsDigit(c.s[i]) /\ c.s[i] \notin {"+", "-", "_"} \cup IntWhitespace

NonNumericRetained ==
    \E i \in RetainedPlaces : \E h \in 1..Len(columns_to_change) :
        NonNumeric(raw.rows[i][columns_to_change[h]])

\* C2: a non-numeric str in one of the five columns never makes
\* data_prep raise: the call completes and the cell is the missing marker.
C2_NonNumericBecomesMissing ==
    (Finished /\ NonNumericRetained) =>
        /\ pc = "done"
        /\ \A j \in 1..Len(df.rows) : \A h \in 1..Len(columns_to_change) :
              NonNumeric(RawOf(df.rows[j])[columns_to_change[h]])
                  => df.rows[j][columns_to_change[h]] = NA

\* The day after a date, and the date k days after a date.
NextDay(x) ==
    IF x.d < DaysInMonth(x.y, x.m) THEN CDate(x.y, x.m, x.d + 1)
    ELSE IF x.m < 12 THEN CDate(x.y, x.m + 1, 1)
    ELSE CDate(x.y + 1, 1, 1)

RECURSIVE PlusDays(_, _)
PlusDays(x, k) == IF k = 0 THEN x ELSE PlusDays(NextDay(x), k - 1)

BothDates(o) == o["start"].k = "date" /\ o["end"].k = "date"

\* C3 as stated: in the returned table a row with both dates has a duration
\* that is at least 0, and a row without one of them has none.
C3_DurationNonNegative ==
    pc = "done" =>
        \A j \in 1..Len(df.rows) :
            IF BothDates(df.rows[j])
            THEN df.rows[j]["duration"].k = "int" /\ df.rows[j]["duration"].v >= 0
            ELSE df.rows[j]["duration"] = NA

\* C3 amended: in the returned table a row with both dates has the duration
\* end - start in whole days, which is negative when end precedes start, and
\* a row without one of them has none; duration is the column after end.
C3_DurationIsDifference ==
    pc \in {"resolve", "write", "done"} =>
        /\ \E h \in 1..(Len(df.columns) - 1) :
              df.columns[h] = "end" /\ df.columns[h + 1] = "duration"
        /\ \A j \in 1..Len(df.rows) :
              LET o == df.rows[j]
              IN IF BothDates(o)
                 THEN /\ o["duration"].k = "int"
                      /\ IF o["duration"].v >= 0
                         THEN PlusDays(o["start"], o["duration"].v) = o["end"]
                         ELSE PlusDays(o["end"], -o["duration"].v) = o["start"]
                 ELSE o["duration"] = NA

\* C3's case: a returned row whose end precedes its start, with a negative
\* duration.
C3_Witness ==
    /\ pc = "done"
    /\ \E j \in 1..Len(df.rows) :
          /\ BothDates(df.rows[j])
          /\ df.rows[j]["duration"] = CInt(-14)

\* The raw row of the scenario.
IsScenario(r) ==
    /\ r["type"] = CStr(<<"S","u","m","m","e","r"," ">>)
    /\ r["country"] = CStr(<<"R","u","s","s","i","a">>)
    /\ r["start"] = CStr(<<"0","1","/","0","7","/","2","0","0","8">>)
    /\ r["end"] = CStr(<<"1","5","/","0","7","/","2","0","0","8">>)
    /\ r["participants_m"] = CStr(<<"1","0","0">>)

\* The Codes the reference table gives for a Name.
CodesOf(name) == {npc[h].Code : h \in {g \in 1..Len(npc) : npc[g].Name = name}}

\* What the scenario says of the output row, but for its type.
ScenarioRest(o) ==
    /\ o["country"] = CStr(RussianFederation)
    /\ o["start"] = CDate(2008, 7, 1)
    /\ o["end"] = CDate(2008, 7, 15)
    /\ o["duration"] = CInt(14)
    /\ o["participants_m"] = CInt(100)
    /\ IF CodesOf(CStr(RussianFederation)) = {} THEN o["Code"] = NA
       ELSE o["Code"] \in CodesOf(CStr(RussianFederation))

\* C5 as stated: the scenario row is output with type 'summer'.
C5_ScenarioLowerCase ==
    pc = "done" =>
        \A j \in 1..Len(df.rows) :
            IsScenario(RawOf(df.rows[j])) =>
                /\ df.rows[j]["type"] = CStr(<<"s","u","m","m","e","r">>)
                /\ ScenarioRest(df.rows[j])

\* C5 amended: the scenario row is output with type 'Summer' (the trailing
\* space is stripped after the exact match with 'Summer' was tried, so the
\* case is kept), country 'Russian Federation', start 2008-07-01, end
\* 2008-07-15, duration 14, participants_m 100 and the Code of the reference
\* table for 'Russian Federation', or none.
C5_ScenarioKeepsCase ==
    pc = "done" =>
        \A j \in 1..Len(df.rows) :
            IsScenario(RawOf(df.rows[j])) =>
                /\ df.rows[j]["type"] = CStr(<<"S","u","m","m","e","r">>)
                /\ ScenarioRest(df.rows[j])

\* C5's case: the scenario row was output, with the Code RUS.
C5_Witness ==
    /\ pc = "done"
    /\ \E j \in 1..Len(df.rows) :
          /\ IsScenario(RawOf(df.rows[j]))
          /\ df.rows[j]["Code"] = CStr(<<"R","U","S">>)

\* t is s without its leading and trailing whitespace and nothing else
\* changed.
IsTrimOf(t, s) ==
    \E a \in 0..Len(s) : \E b \in 0..(Len(s) - a) :
        /\ t = SubSeq(s, a + 1, Len(s) - b)
        /\ \A i \in 1..a : s[i] \in Whitespace
        /\ \A i \in (Len(s) - b + 1)..Len(s) : s[i] \in Whitespace
        /\ t = <<>> \/ (t[1] \notin Whitespace /\ t[Len(t)] \notin Whitespace)

\* C6: in the returned table the type of a row is 'summer' when its raw type
\* is exactly 'Summer', and otherwise its raw type with the leading and
\* trailing whitespace removed and no change of case; a type that is no text
\* (missing, or a number) is missing.
C6_TypeNormalised ==
    pc = "done" =>
        \A j \in 1..Len(df.rows) :
            LET r == RawOf(df.rows[j])["type"]
                t == df.rows[j]["type"]
            IN IF r = CStr(<<"S","u","m","m","e","r">>)
               THEN t = CStr(<<"s","u","m","m","e","r">>)
               ELSE IF r.k = "str" THEN t.k = "str" /\ IsTrimOf(t.s, r.s)
               ELSE t = NA

\* C6's case: the returned table has a row that was 'Summer' and is 'summer',
\* rows that lost a tab and a line feed, a vertical tab and a no-break space,
\* and a row that was 'SUMMER' and still is.
C6_Witness ==
    /\ pc = "done"
    /\ \E j \in 1..Len(df.rows) :
          /\ RawOf(df.rows[j])["type"] = CStr(<<"S","u","m","m","e","r">>)
          /\ df.rows[j]["type"] = CStr(<<"s","u","m","m","e","r">>)
    /\ \E j \in 1..Len(df.rows) :
          /\ RawOf(df.rows[j])["type"] = CStr(<<"\t","W","i","n","t","e","r","\n">>)
          /\ df.rows[j]["type"] = CStr(<<"W","i","n","t","e","r">>)
    /\ \E j \in 1..Len(df.rows) :
          /\ RawOf(df.rows[j])["type"] =
                CStr(<<"","W","i","n","t","e","r","U+00A0">>)
          /\ df.rows[j]["type"] = CStr(<<"W","i","n","t","e","r">>)
    /\ \E j \in 1..Len(df.rows) :
          /\ RawOf(df.rows[j])["type"] =
                CStr(<<"","s","u","m","m","e","r","U+0085","">>)
          /\ df.rows[j]["type"] = CStr(<<"s","u","m","m","e","r">>)
    /\ \E j \in 1..Len(df.rows) :
          df.rows[j]["type"] = CStr(<<"S","U","M","M","E","R">>)

\* The country the five aliases give.
Resolved(c) ==
    CASE c = CStr(<<"U","K">>) -> CStr(GreatBritain)
      [] c = CStr(<<"U","S","A">>) -> CStr(UnitedStates)
      [] c = CStr(<<"K","o","r","e","a">>) -> CStr(RepublicOfKorea)
      [] c = CStr(<<"R","u","s","s","i","a">>) -> CStr(RussianFederation)
      [] c = CStr(<<"C","h","i","n","a">>) -> CStr(PeoplesRepublicOfChina)
      [] OTHER -> c

\* C7: in the returned table the country of a row whose raw country is
\* exactly 'UK' is 'Great Britain', likewise for the four other aliases, and
\* any other country is unchanged; its Code is a Code the reference table
\* gives for that country as Name, or missing when it gives none, and every
\* such Code appears in a row that comes from the same raw row.
C7_CountryResolved ==
    pc = "done" =>
        \A j \in 1..Len(df.rows) :
            LET o == df.rows[j]
                codes == CodesOf(o["country"])
            IN /\ o["country"] = Resolved(RawOf(o)["country"])
               /\ IF codes = {} THEN o["Code"] = NA ELSE o["Code"] \in codes
               /\ "Name" \notin Range(df.columns)
               /\ \A code \in codes :
                     \E g \in 1..Len(df.rows) :
                        /\ KeyOf(df.rows[g]) = KeyOf(o)
                        /\ df.rows[g]["Code"] = code

\* C7's case: a row that was 'UK' is 'Great Britain' with the Code GBR, and
\* a row that was 'uk' still is, without a Code.
C7_Witness ==
    /\ pc = "done"
    /\ \E j \in 1..Len(df.rows) :
          /\ RawOf(df.rows[j])["country"] = CStr(<<"U","K">>)
          /\ df.rows[j]["country"] = CStr(GreatBritain)
          /\ df.rows[j]["Code"] = CStr(<<"G","B","R">>)
    /\ \E j \in 1..Len(df.rows) :
          /\ df.rows[j]["country"] = CStr(<<"u","k">>)
          /\ df.rows[j]["Code"] = NA

\* C9 as stated: no exception leaves print_data, and the completion message
\* is the last line it prints.
C9_AllErrorsHandled ==
    (calls > 0 /\ ppc \in {"idle", "ended"}) =>
        /\ raised = ""
        /\ printed # <<>>
        /\ printed[Len(printed)] = FinishedLine

====
